---------------------------- MODULE Spec2Model ----------------------------
(***************************************************************************)
(* Model of hash_comparativo.py: the whole-file hash gate, the per-source  *)
(* extraction of records from a workbook, the snapshot store and the diff  *)
(* engine, driven by run_fuente.                                           *)
(*                                                                         *)
(* Text is a sequence of one-character strings, so that strip, lower,      *)
(* startswith, count and split can be computed as Python computes them.    *)
(* A Python value is a record tagged by k: None, a number, NaN, or text.   *)
(* Numbers are integers: the inputs of the model hold no fractional        *)
(* numerals (no decimal comma, no exponent), see try_float and PyFloat.    *)
(***************************************************************************)
EXTENDS Integers, Sequences, FiniteSets, TLC

VARIABLES
    hashdb,     \* _hashdb/<source>.sha256 : None or the stored hex digest
    basedb,     \* _db/<source>_DB.xlsx and its meta : None or the adopted file
    snapdb,     \* _snapshots/<source>_snapshot.csv : None or its CSV rows
    cyc,        \* the run_fuente call in progress (or the last one finished)
    hoja1,      \* public_listas/<source>_ULTIMA.xlsx : None or the rows written
    prevgate,   \* per source, what the last run_fuente call of the source did
    arg,        \* input of the function under test (pure-function specs)
    res         \* its result

vars == <<hashdb, basedb, snapdb, hoja1, cyc, prevgate, arg, res>>

-----------------------------------------------------------------------------
(* Python values *)

None == [k |-> "none"]
NaN == [k |-> "nan"]
Num(n) == [k |-> "num", n |-> n]          \* an int
Float(n) == [k |-> "float", n |-> n]      \* a float holding the integer n
Str(s) == [k |-> "str", s |-> s]
\* the exact quotient num / den of two floats that hold integers
Ratio(num, den) == [k |-> "ratio", num |-> num, den |-> den]

\* the exception a call raises
Raise == [k |-> "raise"]
\* a Python list, told apart from Raise and None by its tag
List(l) == [k |-> "list", v |-> l]

IsNone(v) == v.k = "none"

-----------------------------------------------------------------------------
(* Text *)

CharCode ==
    (" " :> 32) @@ ("-" :> 45) @@ ("." :> 46) @@ ("," :> 44) @@ ("<" :> 60) @@ (">" :> 62) @@
    ("0" :> 48) @@ ("1" :> 49) @@ ("2" :> 50) @@ ("3" :> 51) @@ ("4" :> 52) @@ ("5" :> 53) @@
    ("6" :> 54) @@ ("7" :> 55) @@ ("8" :> 56) @@ ("9" :> 57) @@ ("A" :> 65) @@ ("B" :> 66) @@
    ("C" :> 67) @@ ("D" :> 68) @@ ("E" :> 69) @@ ("F" :> 70) @@ ("G" :> 71) @@ ("H" :> 72) @@
    ("I" :> 73) @@ ("J" :> 74) @@ ("K" :> 75) @@ ("L" :> 76) @@ ("M" :> 77) @@ ("N" :> 78) @@
    ("O" :> 79) @@ ("P" :> 80) @@ ("Q" :> 81) @@ ("R" :> 82) @@ ("S" :> 83) @@ ("T" :> 84) @@
    ("U" :> 85) @@ ("V" :> 86) @@ ("W" :> 87) @@ ("X" :> 88) @@ ("Y" :> 89) @@ ("Z" :> 90) @@
    ("a" :> 97) @@ ("b" :> 98) @@ ("c" :> 99) @@ ("d" :> 100) @@ ("e" :> 101) @@ ("f" :> 102) @@
    ("g" :> 103) @@ ("h" :> 104) @@ ("i" :> 105) @@ ("j" :> 106) @@ ("k" :> 107) @@ ("l" :> 108) @@
    ("m" :> 109) @@ ("n" :> 110) @@ ("o" :> 111) @@ ("p" :> 112) @@ ("q" :> 113) @@ ("r" :> 114) @@
    ("s" :> 115) @@ ("t" :> 116) @@ ("u" :> 117) @@ ("v" :> 118) @@ ("w" :> 119) @@ ("x" :> 120) @@
    ("y" :> 121) @@ ("z" :> 122) @@
    ("á" :> 225) @@ ("é" :> 233) @@ ("í" :> 237) @@ ("ó" :> 243) @@ ("ú" :> 250)

\* str.lower() followed by the five replace() calls of _norm_text_lc
LowerFold ==
    ("A" :> "a") @@ ("B" :> "b") @@ ("C" :> "c") @@ ("D" :> "d") @@ ("E" :> "e") @@ ("F" :> "f") @@
    ("G" :> "g") @@ ("H" :> "h") @@ ("I" :> "i") @@ ("J" :> "j") @@ ("K" :> "k") @@ ("L" :> "l") @@
    ("M" :> "m") @@ ("N" :> "n") @@ ("O" :> "o") @@ ("P" :> "p") @@ ("Q" :> "q") @@ ("R" :> "r") @@
    ("S" :> "s") @@ ("T" :> "t") @@ ("U" :> "u") @@ ("V" :> "v") @@ ("W" :> "w") @@ ("X" :> "x") @@
    ("Y" :> "y") @@ ("Z" :> "z") @@
    ("ó" :> "o") @@ ("í" :> "i") @@ ("á" :> "a") @@ ("é" :> "e") @@ ("ú" :> "u")

Digit == ("0" :> 0) @@ ("1" :> 1) @@ ("2" :> 2) @@ ("3" :> 3) @@ ("4" :> 4) @@
         ("5" :> 5) @@ ("6" :> 6) @@ ("7" :> 7) @@ ("8" :> 8) @@ ("9" :> 9)

DigitChar == <<"0", "1", "2", "3", "4", "5", "6", "7", "8", "9">>

IsSpace(c) == c = " "

\* str.strip()
RECURSIVE lstrip(_)
lstrip(s) == IF s # <<>> /\ IsSpace(Head(s)) THEN lstrip(Tail(s)) ELSE s

RECURSIVE rstrip(_)
rstrip(s) ==
    IF s # <<>> /\ IsSpace(s[Len(s)]) THEN rstrip(SubSeq(s, 1, Len(s) - 1)) ELSE s

strip(s) == rstrip(lstrip(s))

\* str(n) of an int
RECURSIVE NatStr(_)
NatStr(n) == IF n < 10 THEN <<DigitChar[n + 1]>>
             ELSE NatStr(n \div 10) \o <<DigitChar[(n % 10) + 1]>>

IntStr(n) == IF n < 0 THEN <<"-">> \o NatStr(-n) ELSE NatStr(n)

\* str(v) of a cell value or of a float (repr of a float that holds an integer)
PyStr(v) ==
    CASE v.k = "none" -> <<"N", "o", "n", "e">>
      [] v.k = "nan" -> <<"n", "a", "n">>
      [] v.k = "num" -> IntStr(v.n)
      [] v.k = "float" -> IntStr(v.n) \o <<".", "0">>
      [] OTHER -> v.s

\* s.replace(a, b) for a one-character a; b is text (possibly empty)
RECURSIVE replace(_, _, _)
replace(s, a, b) ==
    IF s = <<>> THEN <<>>
    ELSE (IF Head(s) = a THEN b ELSE <<Head(s)>>) \o replace(Tail(s), a, b)

\* s.count(a) for a one-character a
count(s, a) == Cardinality({i \in DOMAIN s : s[i] = a})

\* comparison of two str by code point, as sorted() compares
RECURSIVE TextLess(_, _)
TextLess(a, b) ==
    IF b = <<>> THEN FALSE
    ELSE IF a = <<>> THEN TRUE
    ELSE IF Head(a) # Head(b) THEN CharCode[Head(a)] < CharCode[Head(b)]
    ELSE TextLess(Tail(a), Tail(b))

\* sorted(S) of a set of str
RECURSIVE sorted(_)
sorted(S) ==
    IF S = {} THEN <<>>
    ELSE LET m == CHOOSE x \in S : \A y \in S : y = x \/ TextLess(x, y)
         IN <<m>> \o sorted(S \ {m})


-----------------------------------------------------------------------------
(* Normalisation: _norm_text, _norm_text_lc, try_float *)

norm_text(v) == IF IsNone(v) THEN <<>> ELSE strip(PyStr(v))

\* t.lower().replace("ó","o")...: every character lowered and unaccented
lower_fold(t) ==
    [i \in DOMAIN t |-> IF t[i] \in DOMAIN LowerFold THEN LowerFold[t[i]] ELSE t[i]]

norm_text_lc(v) == lower_fold(norm_text(v))

AllDigits(s) == s # <<>> /\ \A i \in DOMAIN s : s[i] \in DOMAIN Digit

RECURSIVE DigitsValue(_)
DigitsValue(s) ==
    IF s = <<>> THEN 0 ELSE 10 * DigitsValue(SubSeq(s, 1, Len(s) - 1)) + Digit[s[Len(s)]]

\* float() of the unsigned numeral b whose points are at the positions dots
float_parts(b, neg, dots) ==
    LET dot == CHOOSE i \in dots : TRUE
        ip == IF dots = {} THEN b ELSE SubSeq(b, 1, dot - 1)
        fp == IF dots = {} THEN <<>> ELSE SubSeq(b, dot + 1, Len(b))
    IN IF Cardinality(dots) <= 1 /\ AllDigits(ip) /\ \A i \in DOMAIN fp : fp[i] = "0"
       THEN Float(IF neg THEN -DigitsValue(ip) ELSE DigitsValue(ip))
       ELSE Raise

float_unsigned(b, neg) ==
    IF lower_fold(b) = <<"n", "a", "n">> THEN NaN
    ELSE float_parts(b, neg, {i \in DOMAIN b : b[i] = "."})

float_stripped(t) ==
    IF t # <<>> /\ Head(t) \in {"-", "+"} THEN float_unsigned(Tail(t), Head(t) = "-")
    ELSE float_unsigned(t, FALSE)

\* float(text): an optional sign, then nan, or digits with an optional point
\* followed by zeros; anything else raises ValueError.  (Numerals with a
\* non-zero fraction, an exponent or inf are not among the model's inputs.)
PyFloat(s) == float_stripped(strip(s))

\* try: return float(s) / except Exception: return None
none_if_raise(f) == IF f.k = "raise" THEN None ELSE f

try_float(v) ==
    IF IsNone(v) THEN None
    ELSE IF v.k = "str"
         THEN none_if_raise(PyFloat(replace(replace(strip(v.s), ".", <<>>), ",", <<".">>)))
    ELSE IF v.k = "nan" THEN NaN
    ELSE Float(v.n)

\* t or None
nonempty_or_none(t) == IF t = <<>> THEN None ELSE Str(t)

\* _norm_text(moneda) or None
text_or_none(v) == nonempty_or_none(norm_text(v))

-----------------------------------------------------------------------------
(* Python float arithmetic and comparisons on Float, NaN *)

FSub(a, b) == IF a.k = "nan" \/ b.k = "nan" THEN NaN ELSE Float(a.n - b.n)
FNe(a, b) == a.k = "nan" \/ b.k = "nan" \/ a.n # b.n
FGt0(a) == a.k # "nan" /\ a.n > 0
FLt0(a) == a.k # "nan" /\ a.n < 0
FEq0(a) == a.k # "nan" /\ a.n = 0

-----------------------------------------------------------------------------
(* Diff engine *)

\* r.get("ID") is truthy
HasID(r) == r.ID # <<>>

\* delta / p_old * 100.0 if p_old != 0 else None
delta_pct(delta, p_old) ==
    IF FEq0(p_old) THEN None
    ELSE IF delta.k = "nan" \/ p_old.k = "nan" THEN NaN
    ELSE Ratio(delta.n * 100, p_old.n)

\* the index of the last record of curr_regs with this id
last_of(regs, id) ==
    CHOOSE i \in DOMAIN regs :
        regs[i].ID = id /\ \A j \in DOMAIN regs : regs[j].ID = id => j <= i

\* {r["ID"]: r for r in curr_regs if r.get("ID")}: the last record of an id wins
curr_map_of(curr_regs) ==
    [id \in {curr_regs[i].ID : i \in {j \in DOMAIN curr_regs : HasID(curr_regs[j])}} |->
        curr_regs[last_of(curr_regs, id)]]

\* mon = curr.get("Moneda") or prev.get("Moneda")
mon_of(curr, prev) ==
    IF curr.Moneda.k = "str" /\ curr.Moneda.s # <<>> THEN curr.Moneda ELSE prev.Moneda

\* row = [_id, mon, p_old, p_new, delta, delta_pct]
price_row(id, mon, p_old, p_new, delta) ==
    <<id, mon, p_old, p_new, delta, delta_pct(delta, p_old)>>

row_of(id, prev, curr) ==
    price_row(id, mon_of(curr, prev), prev.Precio, curr.Precio,
              FSub(curr.Precio, prev.Precio))

\* neither price is None and p_new != p_old
differ(prev, curr) ==
    /\ ~ (IsNone(prev.Precio) \/ IsNone(curr.Precio))
    /\ FNe(curr.Precio, prev.Precio)

\* if delta > 0: precios_up.append(row)
goes_up(prev, curr) == differ(prev, curr) /\ FGt0(FSub(curr.Precio, prev.Precio))

\* variant of goes_dn without the else: every changed price is also a price down
goes_dn_sin_else(prev, curr) == differ(prev, curr)

\* else: precios_dn.append(row)
goes_dn(prev, curr) == differ(prev, curr) /\ ~ FGt0(FSub(curr.Precio, prev.Precio))

up_rows(prev_snap, curr_map, ids) ==
    [i \in DOMAIN ids |-> row_of(ids[i], prev_snap[ids[i]], curr_map[ids[i]])]

item_rows(map, ids) == [i \in DOMAIN ids |-> <<ids[i], map[ids[i]].Moneda, map[ids[i]].Precio>>]

\* the three loops of calcular_diffs over comunes, nuevos_ids and elim_ids
diff_lists(prev_snap, curr_map, comunes, nuevos_ids, elim_ids) ==
    [precios_up |->
        up_rows(prev_snap, curr_map,
                SelectSeq(comunes, LAMBDA id : goes_up(prev_snap[id], curr_map[id]))),
     precios_dn |->
        up_rows(prev_snap, curr_map,
                SelectSeq(comunes, LAMBDA id : goes_dn(prev_snap[id], curr_map[id]))),
     nuevos |-> item_rows(curr_map, nuevos_ids),
     eliminados |-> item_rows(prev_snap, elim_ids)]

diffs_of(prev_snap, curr_map) ==
    diff_lists(prev_snap, curr_map,
               sorted(DOMAIN curr_map \cap DOMAIN prev_snap),
               sorted(DOMAIN curr_map \ DOMAIN prev_snap),
               sorted(DOMAIN prev_snap \ DOMAIN curr_map))

calcular_diffs(prev_snap, curr_regs) == diffs_of(prev_snap, curr_map_of(curr_regs))

\* variant of hay_cambios that looks at the two price lists only
hay_cambios_solo_precios(d) == d.precios_up # <<>> \/ d.precios_dn # <<>>

hay_cambios(d) ==
    d.precios_up # <<>> \/ d.precios_dn # <<>> \/ d.nuevos # <<>> \/ d.eliminados # <<>>

-----------------------------------------------------------------------------
(* Snapshot store: the CSV file of a source *)

\* what csv.writer writes for a field: "" for None, str(value) otherwise
CsvField(v) == IF IsNone(v) THEN <<>> ELSE PyStr(v)

\* the rows guardar_snapshot writes under the header ID,Precio,Moneda
guardar_snapshot(registros) ==
    [k |-> "csv",
     rows |-> [i \in DOMAIN registros |->
                 [ID |-> registros[i].ID,
                  Precio |-> CsvField(registros[i].Precio),
                  Moneda |-> CsvField(registros[i].Moneda)]]]

\* float(row["Precio"]) unless the field is "" or "None"; None when it raises
snap_precio(txt) ==
    IF txt \in {<<>>, <<"N", "o", "n", "e">>} THEN None ELSE none_if_raise(PyFloat(txt))

\* data[row["ID"]] = {"Precio": precio_val, "Moneda": row.get("Moneda") or None}
snap_entry(row) ==
    [Precio |-> snap_precio(row.Precio), Moneda |-> nonempty_or_none(row.Moneda)]

\* the dict cargar_snapshot builds: a later row of an id overwrites an earlier
cargar_snapshot(file) ==
    IF IsNone(file) THEN <<>>
    ELSE [id \in {file.rows[i].ID : i \in DOMAIN file.rows} |->
             snap_entry(file.rows[last_of(file.rows, id)])]

-----------------------------------------------------------------------------
(* Workbooks.  A workbook is [ok, tag, active, sheets]: ok is FALSE when    *)
(* load_workbook raises on the file; tag stands for the bytes of the file  *)
(* that no cell value shows (formatting); a sheet is [title, rows], rows a *)
(* rectangular grid of cell values (None, int or str).                     *)

max_row(ws) == Len(ws.rows)

\* ws.cell(row=r, column=c).value
cell(ws, r, c) ==
    IF r \in DOMAIN ws.rows /\ c \in DOMAIN ws.rows[r] THEN ws.rows[r][c] ELSE None

Min(a, b) == IF a <= b THEN a ELSE b

-----------------------------------------------------------------------------
(* Header detection *)

CAND_COD ==
    { <<"c","o","d","i","g","o">>,
      <<"c","ó","d","i","g","o">>,
      <<"c","o","d">>,
      <<"i","d">>,
      <<"a","r","t","i","c","u","l","o">>,
      <<"a","r","t","í","c","u","l","o">>,
      <<"s","k","u">>,
      <<"m","o","d","e","l","o">> }
CAND_STOCK ==
    { <<"s","t","o","c","k">>,
      <<"e","s","t","a","d","o">>,
      <<"d","i","s","p","o","n","i","b","i","l","i","d","a","d">>,
      <<"d","i","s","p","o","n","i","b","l","e">> }
CAND_PREC ==
    { <<"p","r","e","c","i","o">>,
      <<"p","."," ","l","i","s","t","a">>,
      <<"p"," ","l","i","s","t","a">>,
      <<"p","l","i","s","t","a">>,
      <<"l","i","s","t","a">>,
      <<"p","r","i","c","e">>,
      <<"v","a","l","o","r">> }
CAND_MON ==
    { <<"m","o","n","e","d","a">>,
      <<"c","u","r","r","e","n","c","y">>,
      <<"d","i","v","i","s","a">> }

MAX_SCAN_ROWS == 60

\* a column index of 0 stands for None
NoCols == [codigo |-> 0, stock |-> 0, precio |-> 0, moneda |-> 0]

\* variant of tmp_con without the "not tmp[...]" tests: the last matching cell
\* of a field wins
tmp_con_ultimo(tmp, h, c_i) ==
    IF h = <<>> THEN tmp
    ELSE IF h \in CAND_COD THEN [tmp EXCEPT !.codigo = c_i]
    ELSE IF h \in CAND_PREC THEN [tmp EXCEPT !.precio = c_i]
    ELSE IF h \in CAND_MON THEN [tmp EXCEPT !.moneda = c_i]
    ELSE IF h \in CAND_STOCK THEN [tmp EXCEPT !.stock = c_i]
    ELSE tmp

\* the if/elif chain of detectar_columnas on a cell whose header text is h
tmp_con(tmp, h, c_i) ==
    IF h = <<>> THEN tmp
    ELSE IF tmp.codigo = 0 /\ h \in CAND_COD THEN [tmp EXCEPT !.codigo = c_i]
    ELSE IF tmp.precio = 0 /\ h \in CAND_PREC THEN [tmp EXCEPT !.precio = c_i]
    ELSE IF tmp.moneda = 0 /\ h \in CAND_MON THEN [tmp EXCEPT !.moneda = c_i]
    ELSE IF tmp.stock = 0 /\ h \in CAND_STOCK THEN [tmp EXCEPT !.stock = c_i]
    ELSE tmp

\* the inner loop of detectar_columnas over the cells c_i.. of one row
RECURSIVE scan_row(_, _, _)
scan_row(row, c_i, tmp) ==
    IF c_i > Len(row) THEN tmp
    ELSE scan_row(row, c_i + 1, tmp_con(tmp, norm_text_lc(row[c_i]), c_i))

MinOf(S) == CHOOSE r \in S : \A q \in S : r <= q

\* the scanned rows in which a code column is found
header_rows(ws) ==
    {r \in 1..Min(max_row(ws), MAX_SCAN_ROWS) : scan_row(ws.rows[r], 1, NoCols).codigo # 0}

\* return r_i, tmp
header_at(ws, r_i) == [header_row |-> r_i, cols |-> scan_row(ws.rows[r_i], 1, NoCols)]

first_header(ws, hits) ==
    IF hits = {} THEN [header_row |-> 0, cols |-> NoCols] ELSE header_at(ws, MinOf(hits))

\* (header row, cols); header row 0 stands for None
detectar_columnas(ws) == first_header(ws, header_rows(ws))

-----------------------------------------------------------------------------
(* Stock classification *)

STOCK_NONE ==
    { <<"s","i","n"," ","s","t","o","c","k">>,
      <<"s","i","n","s","t","o","c","k">>,
      <<"s","i","n","-","s","t","o","c","k">>,
      <<"n","o">>,
      <<"0">>,
      <<"a","g","o","t","a","d","o">>,
      <<"s","i","n">> }
STOCK_LOW ==
    { <<"m","e","n","o","r"," ","a"," ","5">>,
      <<"<","5">>,
      <<"b","a","j","o">>,
      <<"c","o","n","s","u","l","t","a","r">>,
      <<"p","o","c","o">>,
      <<"l","i","m","i","t","a","d","o">> }
STOCK_HIGH ==
    { <<"m","a","y","o","r"," ","a"," ","5">>,
      <<">","5">>,
      <<"a","l","t","o">>,
      <<"c","o","n"," ","s","t","o","c","k">>,
      <<"c","o","n","s","t","o","c","k">>,
      <<"e","n"," ","s","t","o","c","k">>,
      <<"s","t","o","c","k">>,
      <<"d","i","s","p","o","n","i","b","l","e">>,
      <<"s","i">>,
      <<"s","í">> }

\* if n <= 0: return 0 / return 6 if n >= 5 else 2; None when float() raised
stock_de_numero(n) ==
    IF n.k = "raise" THEN None
    ELSE IF n.k # "nan" /\ n.n <= 0 THEN Num(0)
    ELSE IF n.k # "nan" /\ n.n >= 5 THEN Num(6)
    ELSE Num(2)

stock_de_texto(t) ==
    IF t \in STOCK_NONE THEN Num(0)
    ELSE IF t \in STOCK_LOW THEN Num(2)
    ELSE IF t \in STOCK_HIGH THEN Num(6)
    ELSE IF t = <<>> THEN None
    ELSE stock_de_numero(PyFloat(replace(t, ",", <<".">>)))

convertir_stock_generico(valor) == stock_de_texto(norm_text_lc(valor))

-----------------------------------------------------------------------------
(* Record extractors.  An extractor returns Raise when load_workbook raises, *)
(* else List(out), the records it appends to out.                           *)

\* range(a, b + 1) as a sequence
RowSeq(a, b) == IF b < a THEN <<>> ELSE [i \in 1..(b - a + 1) |-> a + i - 1]

\* the rows first..max_row of ws whose cell in column col is not blank
code_rows(ws, first, col) ==
    SelectSeq(RowSeq(first, max_row(ws)), LAMBDA r : norm_text(cell(ws, r, col)) # <<>>)

\* row[cols[f]-1] if cols[f] else None
field(ws, r, c) == IF c = 0 THEN None ELSE cell(ws, r, c)

NoMejor == [ws |-> 0, modo |-> "none", header_row |-> 0, cols |-> NoCols, filas |-> 0]

\* if cnt > mejor[4]: mejor = (ws, modo, header_row, cols, cnt)
mejor_con(i, modo, header_row, cols, cnt, mejor) ==
    IF cnt > mejor.filas
    THEN [ws |-> i, modo |-> modo, header_row |-> header_row, cols |-> cols, filas |-> cnt]
    ELSE mejor

\* {"codigo":1,"stock":col_stock_hint,"precio":None,"moneda":None}
cols_fallback(col_stock_hint) ==
    [codigo |-> 1, stock |-> col_stock_hint, precio |-> 0, moneda |-> 0]

\* one pass of the loop of elegir_hoja_stock, on sheet i with d its header
elegir_paso(ws, i, d, fila_inicio_hint, col_stock_hint, mejor) ==
    IF d.header_row # 0 /\ d.cols.codigo # 0
    THEN mejor_con(i, "encabezados", d.header_row, d.cols,
                   Len(code_rows(ws, d.header_row + 1, d.cols.codigo)), mejor)
    ELSE mejor_con(i, "fallback", fila_inicio_hint, cols_fallback(col_stock_hint),
                   Len(code_rows(ws, fila_inicio_hint, 1)), mejor)

\* the loop of elegir_hoja_stock over wb.worksheets[i..], mejor so far
RECURSIVE elegir_desde(_, _, _, _, _)
elegir_desde(wb, i, fila_inicio_hint, col_stock_hint, mejor) ==
    IF i > Len(wb.sheets) THEN mejor
    ELSE elegir_desde(wb, i + 1, fila_inicio_hint, col_stock_hint,
                      elegir_paso(wb.sheets[i], i, detectar_columnas(wb.sheets[i]),
                                  fila_inicio_hint, col_stock_hint, mejor))

elegir_hoja_stock(wb, fila_inicio_hint, col_stock_hint) ==
    elegir_desde(wb, 1, fila_inicio_hint, col_stock_hint, NoMejor)

\* the record of row r for "Hoja 1": ID, Stock, Precio, Moneda
reg_hoja1(ws, r, cols, id) ==
    [ID |-> id,
     Stock |-> convertir_stock_generico(field(ws, r, cols.stock)),
     Precio |-> try_float(field(ws, r, cols.precio)),
     Moneda |-> text_or_none(field(ws, r, cols.moneda))]

\* the record of row r for the diffs: ID, Precio, Moneda
reg_diff(ws, r, cols, id) ==
    [ID |-> id,
     Precio |-> try_float(field(ws, r, cols.precio)),
     Moneda |-> text_or_none(field(ws, r, cols.moneda))]

\* the records out.append builds from the code rows rs of ws
regs_hoja1(ws, cols, rs) ==
    [i \in DOMAIN rs |-> reg_hoja1(ws, rs[i], cols, norm_text(cell(ws, rs[i], cols.codigo)))]

regs_diff(ws, cols, rs) ==
    [i \in DOMAIN rs |-> reg_diff(ws, rs[i], cols, norm_text(cell(ws, rs[i], cols.codigo)))]

\* {"ID": _norm_text(cod), "Stock": ..., "Precio": None, "Moneda": None}
regs_fallback(ws, col_stock_hint, rs) ==
    [i \in DOMAIN rs |->
        [ID |-> norm_text(cell(ws, rs[i], 1)),
         Stock |-> convertir_stock_generico(field(ws, rs[i], col_stock_hint)),
         Precio |-> None,
         Moneda |-> None]]

\* {"ID": _norm_text(cod), "Precio": None, "Moneda": None}
regs_solo_id(ws, rs) ==
    [i \in DOMAIN rs |-> [ID |-> norm_text(cell(ws, rs[i], 1)), Precio |-> None, Moneda |-> None]]

\* the body of extraer_registros_con_stock_auto once the sheet m is chosen
regs_auto(wb, m, fila_inicio_hint, col_stock_hint) ==
    IF m.ws = 0 THEN <<>>
    ELSE IF m.modo = "encabezados"
         THEN regs_hoja1(wb.sheets[m.ws], m.cols,
                         code_rows(wb.sheets[m.ws], m.header_row + 1, m.cols.codigo))
    ELSE regs_fallback(wb.sheets[m.ws], col_stock_hint,
                       code_rows(wb.sheets[m.ws], fila_inicio_hint, 1))

extraer_registros_con_stock_auto(wb, fila_inicio_hint, col_stock_hint) ==
    IF ~ wb.ok THEN Raise
    ELSE List(regs_auto(wb, elegir_hoja_stock(wb, fila_inicio_hint, col_stock_hint),
                        fila_inicio_hint, col_stock_hint))

\* one pass of the sheet loop of extraer_registros_generico_xlsx / extraer_imsa
encabezado_paso(ws, i, d, mejor) ==
    IF d.header_row # 0 /\ d.cols.codigo # 0
    THEN mejor_con(i, "encabezados", d.header_row, d.cols,
                   Len(code_rows(ws, d.header_row + 1, d.cols.codigo)), mejor)
    ELSE mejor

\* the loop of extraer_registros_generico_xlsx and extraer_imsa over the
\* sheets: the sheet with a header and the most code rows, 0 when none has any
RECURSIVE mejor_encabezado(_, _, _)
mejor_encabezado(wb, i, mejor) ==
    IF i > Len(wb.sheets) THEN mejor
    ELSE mejor_encabezado(wb, i + 1,
             encabezado_paso(wb.sheets[i], i, detectar_columnas(wb.sheets[i]), mejor))

\* the body of extraer_registros_generico_xlsx once the sheet m is chosen
regs_generico(wb, m, fila_inicio_fallback) ==
    IF m.ws # 0
    THEN regs_diff(wb.sheets[m.ws], m.cols,
                   code_rows(wb.sheets[m.ws], m.header_row + 1, m.cols.codigo))
    ELSE regs_solo_id(wb.sheets[wb.active],
                      code_rows(wb.sheets[wb.active], fila_inicio_fallback, 1))

extraer_registros_generico_xlsx(wb, fila_inicio_fallback) ==
    IF ~ wb.ok THEN Raise
    ELSE List(regs_generico(wb, mejor_encabezado(wb, 1, NoMejor), fila_inicio_fallback))

\* variant of espejo that mirrors F to T but not T to F
espejo_solo_F(r) ==
    IF Len(r.ID) >= 2 /\ Head(r.ID) = "F" THEN <<[r EXCEPT !.ID = <<"T">> \o Tail(r.ID)]>>
    ELSE <<>>

\* the F/T mirror of a record, <<>> when it has none
espejo(r) ==
    IF Len(r.ID) >= 2 /\ Head(r.ID) = "F" THEN <<[r EXCEPT !.ID = <<"T">> \o Tail(r.ID)]>>
    ELSE IF Len(r.ID) >= 2 /\ Head(r.ID) = "T" THEN <<[r EXCEPT !.ID = <<"F">> \o Tail(r.ID)]>>
    ELSE <<>>

\* the loop of extraer_tevelam_hoja1 / extraer_disco_hoja1 over base
RECURSIVE con_espejos(_)
con_espejos(base) ==
    IF base = <<>> THEN <<>>
    ELSE <<Head(base)>> \o espejo(Head(base)) \o con_espejos(Tail(base))

\* for r in base: ...; an exception of the base extractor propagates
espejar(base) == IF base.k = "raise" THEN Raise ELSE List(con_espejos(base.v))

extraer_tevelam_hoja1(wb) == espejar(extraer_registros_con_stock_auto(wb, 11, 9))

extraer_disco_hoja1(wb) == espejar(extraer_registros_con_stock_auto(wb, 9, 7))

\* the records of the sheet STOCK when it has a header, NoList otherwise
regs_stock(st, d) ==
    IF d.header_row # 0
    THEN List(regs_hoja1(st, d.cols, code_rows(st, d.header_row + 1, d.cols.codigo)))
    ELSE [k |-> "none"]

\* if "STOCK" in wb.sheetnames: st = wb["STOCK"] ...
hoja_stock(wb, named) ==
    IF named = {} THEN [k |-> "none"]
    ELSE regs_stock(wb.sheets[MinOf(named)], detectar_columnas(wb.sheets[MinOf(named)]))

\* fallback AUTO
o_auto(wb, out) ==
    IF out.k = "none" THEN extraer_registros_con_stock_auto(wb, 2, 8) ELSE out

extraer_extra_hoja1(wb) ==
    IF ~ wb.ok THEN Raise
    ELSE o_auto(wb, hoja_stock(wb, {i \in DOMAIN wb.sheets : wb.sheets[i].title = "STOCK"}))

\* s_cod.split("-", 2)[-1]: the text after the second "-" of s_cod
tras_segundo(s_cod, hy) ==
    SubSeq(s_cod, MinOf(hy \ {MinOf(hy)}) + 1, Len(s_cod))

\* variant of cod_final that keeps the text after the last "-" (rsplit)
cod_final_ultimo(s_cod) ==
    IF count(s_cod, "-") >= 2
    THEN SubSeq(s_cod, MinOf({i \in DOMAIN s_cod : \A j \in i..Len(s_cod) : j = i \/ s_cod[j] # "-"}
                             \cap {i \in DOMAIN s_cod : s_cod[i] = "-"}) + 1, Len(s_cod))
    ELSE s_cod

\* s_cod.split("-", 2)[-1] if s_cod.count("-") >= 2 else s_cod
cod_final(s_cod) ==
    IF count(s_cod, "-") >= 2
    THEN tras_segundo(s_cod, {i \in DOMAIN s_cod : s_cod[i] = "-"})
    ELSE s_cod

regs_hoja1_imsa(ws, cols, rs) ==
    [i \in DOMAIN rs |->
        reg_hoja1(ws, rs[i], cols, cod_final(norm_text(cell(ws, rs[i], cols.codigo))))]

regs_diff_imsa(ws, cols, rs) ==
    [i \in DOMAIN rs |->
        reg_diff(ws, rs[i], cols, cod_final(norm_text(cell(ws, rs[i], cols.codigo))))]

\* target_ws, header_row, cols = ws, hr, c
target_con(i, d) ==
    [ws |-> i, modo |-> "encabezados", header_row |-> d.header_row, cols |-> d.cols,
     filas |-> 0]

\* the two sheet loops of extraer_imsa_hoja1: the first sheet with a header,
\* else the first with more than 10 codes from row 8 on, else none
target_imsa(wb, con_hdr, con_fb) ==
    IF con_hdr # {} THEN target_con(MinOf(con_hdr), detectar_columnas(wb.sheets[MinOf(con_hdr)]))
    ELSE IF con_fb # {}
         THEN [ws |-> MinOf(con_fb), modo |-> "fallback", header_row |-> 7,
               cols |-> cols_fallback(8), filas |-> 0]
    ELSE NoMejor

regs_target_imsa(wb, m) ==
    IF m.ws = 0 THEN <<>>
    ELSE regs_hoja1_imsa(wb.sheets[m.ws], m.cols,
                         code_rows(wb.sheets[m.ws], m.header_row + 1, m.cols.codigo))

extraer_imsa_hoja1(wb) ==
    IF ~ wb.ok THEN Raise
    ELSE List(regs_target_imsa(wb,
             target_imsa(wb,
                 {i \in DOMAIN wb.sheets : detectar_columnas(wb.sheets[i]).header_row # 0},
                 {i \in DOMAIN wb.sheets : Len(code_rows(wb.sheets[i], 8, 1)) > 10})))

\* the body of extraer_imsa once the sheet best is chosen
regs_imsa(wb, best) ==
    IF best.ws # 0
    THEN regs_diff_imsa(wb.sheets[best.ws], best.cols,
                        code_rows(wb.sheets[best.ws], best.header_row + 1, best.cols.codigo))
    ELSE regs_solo_id(wb.sheets[wb.active], code_rows(wb.sheets[wb.active], 8, 1))

extraer_imsa(wb) ==
    IF ~ wb.ok THEN Raise
    ELSE List(regs_imsa(wb, mejor_encabezado(wb, 1, NoMejor)))

extraer_tevelam(wb) == extraer_registros_generico_xlsx(wb, 11)
extraer_disco(wb) == extraer_registros_generico_xlsx(wb, 9)
extraer_proveedor_extra(wb) == extraer_registros_generico_xlsx(wb, 2)

-----------------------------------------------------------------------------
(* The files the sources deliver *)

H4 == <<Str(<<"c","o","d">>), Str(<<"s","t","o","c","k">>),
        Str(<<"p","r","e","c","i","o">>), Str(<<"m","o","n","e","d","a">>)>>
USD == Str(<<"U","S","D">>)
Hoja(title, rows) == [title |-> title, rows |-> rows]
Libro(tag, sheets) == [ok |-> TRUE, tag |-> tag, active |-> 1, sheets |-> sheets]
\* a file load_workbook cannot read
Ilegible == [ok |-> FALSE, tag |-> 0, active |-> 1, sheets |-> <<>>]

RowF1(precio) == <<Str(<<"F","1">>), Str(<<"M","a","y","o","r"," ","a"," ","5">>), precio, USD>>
RowX9 == <<Str(<<" ","X","9">>), Str(<<"S","i","n"," ","s","t","o","c","k">>), Num(50), USD>>
RowIm == <<Str(<<"S","-","0","1","-","K","7">>), Num(3), Str(<<"1",".","2","0","0">>), None>>
RowNaN == <<Str(<<"N","4">>), None, Str(<<"n","a","n">>), USD>>
\* a row whose code cell holds the placeholder "--"
RowGuion == <<Str(<<"-","-">>), None, Num(10), USD>>

\* the only row of a sheet that holds a legend and no table
RowLeyenda == <<Str(<<"L","i","s","t","a"," ","d","e"," ","p","r","e","c","i","o","s">>)>>

Files ==
    << Libro(0, <<Hoja("Lista", <<H4, RowF1(Num(100)), RowX9>>)>>),
       Libro(1, <<Hoja("Lista", <<H4, RowF1(Num(100)), RowX9>>)>>),
       Libro(0, <<Hoja("Lista", <<H4, RowF1(Num(120))>>)>>),
       Ilegible,
       Libro(0, <<Hoja("Lista", <<H4, RowIm, RowNaN, RowGuion>>)>>),
       Libro(0, <<Hoja("Lista", <<H4, RowIm, RowF1(Num(100)), RowGuion>>)>>),
       Libro(0, <<Hoja("Leyenda", <<RowLeyenda>>)>>) >>

Sources == {"Tevelam", "Disco_Pro", "ARS_Tech", "IMSA"}

\* the files a download of the source may yield
FilesOf(s) ==
    CASE s = "Tevelam" -> {1, 2, 3, 4, 7}
      [] s = "Disco_Pro" -> {1, 3}
      [] s = "ARS_Tech" -> {3, 4}
      [] s = "IMSA" -> {5, 6}

\* the extractors main passes to run_fuente
extractor_diffs(s, wb) ==
    CASE s = "Tevelam" -> extraer_tevelam(wb)
      [] s = "Disco_Pro" -> extraer_disco(wb)
      [] s = "ARS_Tech" -> extraer_proveedor_extra(wb)
      [] s = "IMSA" -> extraer_imsa(wb)

extractor_hoja1(s, wb) ==
    CASE s = "Tevelam" -> extraer_tevelam_hoja1(wb)
      [] s = "Disco_Pro" -> extraer_disco_hoja1(wb)
      [] s = "ARS_Tech" -> extraer_extra_hoja1(wb)
      [] s = "IMSA" -> extraer_imsa_hoja1(wb)

-----------------------------------------------------------------------------
(* Daily gate.  A date is told apart only as today's or an earlier one: the *)
(* meta of a base holds "hoy" from its adoption until the date moves on,    *)
(* and "antes" from then on.                                                *)

\* hoy_ar_date(): the local date of today
hoy_ar_date == "hoy"

\* meta.get("saved_at_ar", "")[:10] == hoy_ar_date(); False when there is no meta
base_es_de_hoy(base) == base.k = "xlsx" /\ base.saved_at_ar = hoy_ar_date

\* variant of skip_por_base_de_hoy that never skips
skip_nunca(base) == FALSE

skip_por_base_de_hoy(base) == base_es_de_hoy(base)

-----------------------------------------------------------------------------
(* Hash gate *)

\* file_sha256: the hex digest of the bytes of file f; distinct files have
\* distinct digests
file_sha256(f) == Str(<<"h">> \o NatStr(f))

\* variant of read_prev_hash that never finds a stored hash
read_prev_hash_ausente(stored) == None

\* p.read_text().strip() if the file exists
read_prev_hash(stored) == IF IsNone(stored) THEN None ELSE Str(strip(stored.s))

BORRAR_DUPLICADO == TRUE

\* variant of decide_should_process that compares but never calls write_hash
decide_sin_write_hash(f, hdb, bdb, flt) ==
    [proc |-> (hdb # file_sha256(f)), hash |-> hdb, base |-> bdb, borrado |-> FALSE]

\* decide_should_process on an existing download f of source s, with the
\* stored hash hdb and base bdb.  flt tells which writes raise: h1, b1 in the
\* try block (write_hash, adoptar_como_base), h2, b2 in the except block.
decide_should_process(f, hdb, bdb, flt) ==
    LET new_hash == file_sha256(f)
        prev_hash == read_prev_hash(hdb)
        adopted == [k |-> "xlsx", file |-> f, sha256 |-> new_hash,
                    saved_at_ar |-> hoy_ar_date]
    IN IF prev_hash = new_hash
       THEN [proc |-> FALSE, hash |-> hdb, base |-> bdb, borrado |-> BORRAR_DUPLICADO]
       ELSE IF ~ flt.h1 /\ ~ flt.b1
            THEN [proc |-> TRUE, hash |-> new_hash, base |-> adopted, borrado |-> FALSE]
       ELSE LET h_try == IF flt.h1 THEN hdb ELSE new_hash
            IN [proc |-> TRUE,
                hash |-> IF flt.h2 THEN h_try ELSE new_hash,
                base |-> IF flt.h2 \/ flt.b2 THEN bdb ELSE adopted,
                borrado |-> FALSE]

NoFault == [h1 |-> FALSE, b1 |-> FALSE, h2 |-> FALSE, b2 |-> FALSE]

-----------------------------------------------------------------------------
(* run_fuente, one step per action *)

NoList == [k |-> "none"]

NoDiffs == [precios_up |-> <<>>, precios_dn |-> <<>>, nuevos |-> <<>>, eliminados |-> <<>>]

\* cyc.same, cyc.prevfail and cyc.elim0 record, when run_fuente is called, what
\* prevgate holds for the source; cyc.snap0 and cyc.hash0 are the snapshot file
\* and the stored hash at that time; cyc.falla names the write that raised in
\* the call ("hash": write_hash raised in the try and in the except block of
\* decide_should_process, "snap": guardar_snapshot raised); cyc.hashes0 and
\* cyc.snaps0 are the stored hashes and snapshot files of all the sources when
\* run_fuente is called, cyc.base0 the base of the source at that time;
\* cyc.h1 tells that step A of run_fuente has called extractor_hoja1
Idle == [pc |-> "idle", src |-> "", file |-> 0, same |-> FALSE, prevfail |-> FALSE,
         elim0 |-> {}, proc |-> FALSE, borrado |-> FALSE, snap0 |-> None, hash0 |-> None,
         h1 |-> FALSE, regs |-> NoList, diffed |-> FALSE, diffs |-> NoDiffs, report |-> FALSE,
         saved |-> FALSE, fin |-> "", falla |-> "", hashes0 |-> <<>>, snaps0 |-> <<>>,
         base0 |-> None]

\* history of a source: the file of its last gate call, whether step B of the
\* call raised, and the ids its last finished step B put in the removed list
NoPrev == [file |-> 0, fallo |-> FALSE, elim |-> {}]

InitMain ==
    /\ hashdb = [s \in Sources |-> None]
    /\ basedb = [s \in Sources |-> None]
    /\ snapdb = [s \in Sources |-> None]
    /\ hoja1 = [s \in Sources |-> None]
    /\ prevgate = [s \in Sources |-> NoPrev]
    /\ cyc = Idle

NoTest ==
    /\ arg = None
    /\ res = None

Init == InitMain /\ NoTest

\* main downloads a file f of a source unless skip_por_base_de_hoy(s), and
\* calls run_fuente(s, path, ...) with it; srcs are the sources whose download
\* succeeds (if tevelam: ..., if disco: ...)
Call(srcs) ==
    /\ cyc.pc \in {"idle", "done"}
    /\ \E s \in srcs : \E f \in FilesOf(s) :
          /\ ~ skip_por_base_de_hoy(basedb[s])
          /\ cyc' = [Idle EXCEPT !.pc = "gate", !.src = s, !.file = f,
                                 !.same = (prevgate[s].file = f),
                                 !.prevfail = prevgate[s].fallo,
                                 !.elim0 = prevgate[s].elim,
                                 !.snap0 = snapdb[s],
                                 !.hash0 = hashdb[s],
                                 !.base0 = basedb[s],
                                 !.hashes0 = hashdb,
                                 !.snaps0 = snapdb]
    /\ UNCHANGED <<hashdb, basedb, snapdb, hoja1, prevgate, arg, res>>

\* if decide_should_process(source_key, path): ... else: omitidos.append
Gate(faults) ==
    /\ cyc.pc = "gate"
    /\ \E flt \in faults :
          LET d == decide_should_process(cyc.file, hashdb[cyc.src], basedb[cyc.src], flt)
          IN /\ hashdb' = [hashdb EXCEPT ![cyc.src] = d.hash]
             /\ basedb' = [basedb EXCEPT ![cyc.src] = d.base]
             /\ cyc' = [cyc EXCEPT !.proc = d.proc, !.borrado = d.borrado,
                                   !.pc = IF d.proc THEN "hoja1" ELSE "refresco",
                                   !.fin = IF d.proc THEN "" ELSE "omitido",
                                   !.falla = IF flt.h1 /\ flt.h2 /\ d.proc THEN "hash" ELSE ""]
    /\ prevgate' = [prevgate EXCEPT ![cyc.src].file = cyc.file, ![cyc.src].fallo = FALSE]
    /\ UNCHANGED <<snapdb, hoja1, arg, res>>

\* guardar_hoja1(regs_h1, ...) unless the extractor raised
hoja1_con(h, s, regs_h1) == IF regs_h1.k = "raise" THEN h ELSE [h EXCEPT ![s] = regs_h1]

\* A) regs_h1 = extractor_hoja1(path); guardar_hoja1(...); an exception is logged
Hoja1 ==
    /\ cyc.pc = "hoja1"
    /\ hoja1' = hoja1_con(hoja1, cyc.src, extractor_hoja1(cyc.src, Files[cyc.file]))
    /\ cyc' = [cyc EXCEPT !.pc = "diff", !.h1 = TRUE]
    /\ UNCHANGED <<hashdb, basedb, snapdb, prevgate, arg, res>>

\* pu, pdn, nuevos, elim = calcular_diffs(prev, regs); if hay_cambios(...)
tras_diffs(c, regs, d) ==
    [c EXCEPT !.regs = regs, !.diffed = TRUE, !.diffs = d,
              !.pc = IF hay_cambios(d) THEN "report" ELSE "snap"]

\* variant of tras_extraer in which the exception of the extractor leaves
\* run_fuente and ends main
tras_extraer_propaga(c, regs, prev) ==
    IF regs.k = "raise"
    THEN [c EXCEPT !.regs = Raise, !.pc = "abortado"]
    ELSE tras_diffs(c, regs, calcular_diffs(prev, regs.v))

\* variant of tras_extraer without the except block: an extractor that raises
\* counts as one that found no record
tras_extraer_sin_except(c, regs, prev) ==
    IF regs.k = "raise"
    THEN tras_diffs(c, List(<<>>), calcular_diffs(prev, <<>>))
    ELSE tras_diffs(c, regs, calcular_diffs(prev, regs.v))

\* the try block of step B up to calcular_diffs; the except block logs
tras_extraer(c, regs, prev) ==
    IF regs.k = "raise"
    THEN [c EXCEPT !.regs = Raise, !.pc = "done", !.fin = "procesado"]
    ELSE tras_diffs(c, regs, calcular_diffs(prev, regs.v))

\* prev = cargar_snapshot(source_key) when reading the snapshot file raises:
\* the except block logs, nothing is compared
tras_cargar(c, regs, prev, raises) ==
    IF raises /\ regs.k # "raise"
    THEN [c EXCEPT !.regs = regs, !.pc = "done", !.fin = "procesado"]
    ELSE tras_extraer(c, regs, prev)

\* B) regs = extractor_diffs(path); prev = cargar_snapshot(...);
\*    calcular_diffs(prev, regs); hay_cambios(...)
Diff(faults) ==
    /\ cyc.pc = "diff"
    /\ \E raises \in faults :
          cyc' = tras_cargar(cyc, extractor_diffs(cyc.src, Files[cyc.file]),
                             cargar_snapshot(snapdb[cyc.src]), raises)
    /\ prevgate' = [prevgate EXCEPT ![cyc.src].fallo = ~ cyc'.diffed]
    /\ UNCHANGED <<hashdb, basedb, snapdb, hoja1, arg, res>>

\* the ids of the rows of one of the four lists
ids_de(rows) == {rows[i][1] : i \in DOMAIN rows}

\* variant of Report in which an exception of crear_libro_cambios is caught on
\* its own and run_fuente goes on to guardar_snapshot
Report_sigue(faults) ==
    /\ cyc.pc = "report"
    /\ \E raises \in faults :
          /\ cyc' = [cyc EXCEPT !.report = ~ raises, !.pc = "snap"]
          /\ prevgate' = [prevgate EXCEPT ![cyc.src].elim = ids_de(cyc.diffs.eliminados)]
    /\ UNCHANGED <<hashdb, basedb, snapdb, hoja1, arg, res>>

\* crear_libro_cambios(...): the report is saved, or wb.save raises
Report(faults) ==
    /\ cyc.pc = "report"
    /\ \E raises \in faults :
          /\ cyc' = IF raises
                    THEN [cyc EXCEPT !.pc = "done", !.fin = "procesado"]
                    ELSE [cyc EXCEPT !.report = TRUE, !.pc = "snap"]
          /\ prevgate' = IF raises
                         THEN [prevgate EXCEPT ![cyc.src].fallo = TRUE]
                         ELSE [prevgate EXCEPT ![cyc.src].elim = ids_de(cyc.diffs.eliminados)]
    /\ UNCHANGED <<hashdb, basedb, snapdb, hoja1, arg, res>>

\* guardar_snapshot(source_key, regs); procesados.add(source_key)
Snap(faults) ==
    /\ cyc.pc = "snap"
    /\ \E raises \in faults :
          /\ snapdb' = IF raises THEN snapdb
                       ELSE [snapdb EXCEPT ![cyc.src] = guardar_snapshot(cyc.regs.v)]
          /\ cyc' = [cyc EXCEPT !.saved = ~ raises, !.pc = "done", !.fin = "procesado",
                                !.falla = IF raises THEN "snap" ELSE cyc.falla]
          /\ prevgate' = [prevgate EXCEPT ![cyc.src].fallo = raises,
                                          ![cyc.src].elim = ids_de(cyc.diffs.eliminados)]
    /\ UNCHANGED <<hashdb, basedb, hoja1, arg, res>>

\* what ensure_hoja1_desde_base leaves in public_listas: Hoja 1 extracted from
\* the base of the source, when there is a base and the extractor does not raise
hoja1_desde_base(h, s, base) ==
    IF IsNone(base) THEN h ELSE hoja1_con(h, s, extractor_hoja1(s, Files[base.file]))

\* 2.b) main, after the run_fuente calls: ensure_hoja1_desde_base(s, ...) for
\* a source that is not in procesados
Refresco ==
    /\ cyc.pc = "refresco"
    /\ hoja1' = hoja1_desde_base(hoja1, cyc.src, basedb[cyc.src])
    /\ cyc' = [cyc EXCEPT !.pc = "done"]
    /\ UNCHANGED <<hashdb, basedb, snapdb, prevgate, arg, res>>

\* main on a source for which skip_por_base_de_hoy(s) holds: no download, so
\* run_fuente is not called; the source is not in procesados and 2.b)
\* refreshes its Hoja 1 from the base
Salto(srcs) ==
    /\ cyc.pc \in {"idle", "done"}
    /\ \E s \in srcs :
          /\ skip_por_base_de_hoy(basedb[s])
          /\ cyc' = [Idle EXCEPT !.pc = "refresco", !.src = s, !.fin = "salteado",
                                 !.snap0 = snapdb[s],
                                 !.hash0 = hashdb[s],
                                 !.base0 = basedb[s],
                                 !.hashes0 = hashdb,
                                 !.snaps0 = snapdb]
    /\ UNCHANGED <<hashdb, basedb, snapdb, hoja1, prevgate, arg, res>>

\* the meta of a base once the local date has moved on
de_antes(base) == IF base.k = "xlsx" THEN [base EXCEPT !.saved_at_ar = "antes"] ELSE base

\* main has returned and the local date moves on before it is run again: no
\* base is of today
Amanece ==
    /\ cyc.pc \in {"idle", "done"}
    /\ \E s \in Sources : base_es_de_hoy(basedb[s])
    /\ basedb' = [s \in Sources |-> de_antes(basedb[s])]
    /\ cyc' = Idle
    /\ UNCHANGED <<hashdb, snapdb, hoja1, prevgate, arg, res>>

\* every write succeeds; the downloads of three of the sources succeed
Next ==
    \/ Call({"Tevelam", "Disco_Pro", "IMSA"})
    \/ Salto({"Tevelam", "Disco_Pro", "IMSA"})
    \/ Amanece
    \/ Gate({NoFault})
    \/ Hoja1
    \/ Diff({FALSE})
    \/ Report({FALSE})
    \/ Snap({FALSE})
    \/ Refresco

Spec == Init /\ [][Next]_vars

\* saving the report may raise; only Tevelam and ARS_Tech are downloaded
NextFail ==
    \/ Call({"Tevelam", "ARS_Tech"})
    \/ Salto({"Tevelam", "ARS_Tech"})
    \/ Amanece
    \/ Gate({NoFault})
    \/ Hoja1
    \/ Diff({FALSE})
    \/ Report(BOOLEAN)
    \/ Snap({FALSE})
    \/ Refresco

SpecFail == Init /\ [][NextFail]_vars

\* write_hash raises in the try block only, or in the except block as well
FallasHash ==
    { NoFault,
      [h1 |-> TRUE, b1 |-> FALSE, h2 |-> FALSE, b2 |-> FALSE],
      [h1 |-> TRUE, b1 |-> FALSE, h2 |-> TRUE, b2 |-> FALSE] }

\* the writes of the hash, of the report and of the snapshot and the reading
\* of the snapshot may raise; only
\* Disco_Pro and ARS_Tech are downloaded
NextPersist ==
    \/ Call({"Disco_Pro", "ARS_Tech"})
    \/ Salto({"Disco_Pro", "ARS_Tech"})
    \/ Amanece
    \/ Gate(FallasHash)
    \/ Hoja1
    \/ Diff(BOOLEAN)
    \/ Report(BOOLEAN)
    \/ Snap(BOOLEAN)
    \/ Refresco

SpecPersist == Init /\ [][NextPersist]_vars

-----------------------------------------------------------------------------
(* calcular_diffs on its own: arg holds a loaded snapshot and a record list *)

MaxRegs == 2

\* the sequences over S of length at most n
ListasHasta(S, n) == UNION {[1..k -> S] : k \in 0..n}

A1 == <<"A", "1">>
B2 == <<"B", "2">>

\* records as the extractors build them: the id of a record is text (empty
\* when an IMSA code such as "--" is cut), Precio is None, a float or nan
ValoresDiff ==
    { [Precio |-> Float(100), Moneda |-> USD],
      [Precio |-> Float(120), Moneda |-> USD],
      [Precio |-> Float(50), Moneda |-> USD],
      [Precio |-> None, Moneda |-> None],
      [Precio |-> NaN, Moneda |-> USD] }

Reg(id, precio, moneda) == [ID |-> id, Precio |-> precio, Moneda |-> moneda]

RegsDiff == {Reg(id, v.Precio, v.Moneda) : id \in {<<>>, A1, B2}, v \in ValoresDiff}

\* the record lists whose snapshot an earlier cycle saved
PrevListas ==
    { <<>>,
      <<Reg(A1, Float(100), USD)>>,
      <<Reg(A1, Float(100), USD), Reg(B2, Float(120), USD)>>,
      <<Reg(A1, None, None)>>,
      <<Reg(A1, NaN, USD)>>,
      <<Reg(<<>>, Float(100), USD), Reg(A1, Float(100), USD)>>,
      <<Reg(B2, Float(120), USD), Reg(B2, Float(100), None)>> }

\* the snapshots cargar_snapshot can return: no file, or a file saved earlier
PrevDiff == {cargar_snapshot(None)} \cup {cargar_snapshot(guardar_snapshot(l)) : l \in PrevListas}

InitDiff ==
    /\ InitMain
    /\ arg \in {[k |-> "diffs", prev |-> p, curr |-> c] :
                   p \in PrevDiff, c \in ListasHasta(RegsDiff, MaxRegs)}
    /\ res = None

RunDiffs ==
    /\ arg.k = "diffs"
    /\ res.k = "none"
    /\ res' = [k |-> "diffs", v |-> calcular_diffs(arg.prev, arg.curr)]
    /\ UNCHANGED <<hashdb, basedb, snapdb, hoja1, cyc, prevgate, arg>>

SpecDiff == InitDiff /\ [][RunDiffs]_vars

-----------------------------------------------------------------------------
(* The F/T mirroring extractors on their own: arg holds a workbook *)

MaxFilas == 2

IDsEspejo == {<<"F">>, <<"T">>, <<"F", "1">>, <<"T", "1">>, <<"X", "9">>}

EstadosEspejo ==
    { [stock |-> Str(<<"M","a","y","o","r"," ","a"," ","5">>), precio |-> Num(100)],
      [stock |-> Str(<<"S","i","n"," ","s","t","o","c","k">>), precio |-> Num(50)] }

\* a row under the header H4
FilaH4(id, e) == <<Str(id), e.stock, e.precio, USD>>

\* a row of a sheet without header: the code in column 1, the stock in
\* columns 7 and 9 (the hints of Disco_Pro and Tevelam)
FilaPlana(id, e) == <<Str(id), None, None, None, None, None, e.stock, None, e.stock>>

Blanca(w) == [c \in 1..w |-> None]
Blancas(n, w) == [r \in 1..n |-> Blanca(w)]

LibrosEspejo ==
    {Libro(0, <<Hoja("Lista", <<H4>> \o l)>>) :
        l \in ListasHasta({FilaH4(id, e) : id \in IDsEspejo, e \in EstadosEspejo}, MaxFilas)}
    \cup
    {Libro(0, <<Hoja("Lista", Blancas(10, 9) \o l)>>) :
        l \in ListasHasta({FilaPlana(id, e) : id \in IDsEspejo, e \in EstadosEspejo}, MaxFilas)}

InitEspejo ==
    /\ InitMain
    /\ arg \in {[k |-> "libro", wb |-> wb] : wb \in LibrosEspejo}
    /\ res = None

RunEspejo ==
    /\ arg.k = "libro"
    /\ res.k = "none"
    /\ res' = [k |-> "espejos",
               tevelam |-> extraer_tevelam_hoja1(arg.wb).v,
               disco |-> extraer_disco_hoja1(arg.wb).v]
    /\ UNCHANGED <<hashdb, basedb, snapdb, hoja1, cyc, prevgate, arg>>

SpecEspejo == InitEspejo /\ [][RunEspejo]_vars

-----------------------------------------------------------------------------
(* The IMSA extractors on their own: arg holds a code and a workbook whose  *)
(* code cells hold it, under the header H4 or in a sheet without header    *)

MaxCod == 7

CodigosImsa == UNION {[1..k -> {"K", "-"}] : k \in 1..MaxCod}

\* 7 blank rows, then 11 rows with the code in column 1 and the stock in column 8
HojaPlanaImsa(cod) ==
    Blancas(7, 8) \o [r \in 1..11 |-> <<Str(cod), None, None, None, None, None, None, Num(3)>>]

LibroImsa(cod, forma) ==
    IF forma = "encabezado"
    THEN Libro(0, <<Hoja("Lista", <<H4, <<Str(cod), Num(3), Num(10), USD>>>>)>>)
    ELSE Libro(0, <<Hoja("Lista", HojaPlanaImsa(cod))>>)

InitImsa ==
    /\ InitMain
    /\ arg \in {[k |-> "imsa", cod |-> c, forma |-> f, wb |-> LibroImsa(c, f)] :
                   c \in CodigosImsa, f \in {"encabezado", "plano"}}
    /\ res = None

RunImsa ==
    /\ arg.k = "imsa"
    /\ res.k = "none"
    /\ res' = [k |-> "imsa",
               difs |-> extraer_imsa(arg.wb).v,
               hoja1 |-> extraer_imsa_hoja1(arg.wb).v]
    /\ UNCHANGED <<hashdb, basedb, snapdb, hoja1, cyc, prevgate, arg>>

SpecImsa == InitImsa /\ [][RunImsa]_vars

-----------------------------------------------------------------------------
(* The eight extractors on a workbook of two sheets: arg holds the workbook *)

MaxHojaFilas == 2

\* the code of row j of sheet i: A1, A2, ... in the first sheet, B1, ... in
\* the second
CodigoDe(i, j) == <<(IF i = 1 THEN "A" ELSE "B"), DigitChar[j + 1]>>

\* a sheet with the header H4 and n rows under it
HojaConEncabezado(title, i, n) ==
    Hoja(title, <<H4>> \o [j \in 1..n |->
        <<Str(CodigoDe(i, j)), Str(<<"M","a","y","o","r"," ","a"," ","5">>), Num(100), USD>>])

\* a sheet without header: 10 blank rows, then n rows with the code in column
\* 1 and the stock in columns 7, 8 and 9
HojaSinEncabezado(title, i, n) ==
    Hoja(title, Blancas(10, 9) \o [j \in 1..n |->
        <<Str(CodigoDe(i, j)), None, None, None, None, None, Num(3), Num(3), Num(3)>>])

HojasDe(i) ==
    {HojaConEncabezado(t, i, n) : t \in {"Lista", "STOCK"}, n \in 0..MaxHojaFilas}
    \cup {HojaSinEncabezado(t, i, n) : t \in {"Lista", "STOCK"}, n \in 0..MaxHojaFilas}

LibrosDosHojas == {Libro(0, <<a, b>>) : a \in HojasDe(1), b \in HojasDe(2)}

InitHojas ==
    /\ InitMain
    /\ arg \in {[k |-> "hojas", wb |-> wb] : wb \in LibrosDosHojas}
    /\ res = None

RunHojas ==
    /\ arg.k = "hojas"
    /\ res.k = "none"
    /\ res' = [k |-> "hojas",
               tevelam_h1 |-> extraer_tevelam_hoja1(arg.wb).v,
               disco_h1 |-> extraer_disco_hoja1(arg.wb).v,
               extra_h1 |-> extraer_extra_hoja1(arg.wb).v,
               imsa_h1 |-> extraer_imsa_hoja1(arg.wb).v,
               tevelam |-> extraer_tevelam(arg.wb).v,
               disco |-> extraer_disco(arg.wb).v,
               extra |-> extraer_proveedor_extra(arg.wb).v,
               imsa |-> extraer_imsa(arg.wb).v]
    /\ UNCHANGED <<hashdb, basedb, snapdb, hoja1, cyc, prevgate, arg>>

SpecHojas == InitHojas /\ [][RunHojas]_vars

-----------------------------------------------------------------------------
(* The eight extractors on a sheet with a header whose rows may repeat a    *)
(* code: arg holds the workbook and the codes of its rows                   *)

MaxIdFilas == 3

CodigosIds ==
    { <<"F", "1">>, <<"T", "1">>, <<"X", "9">>,
      <<"A", "-", "1", "-", "K", "7">>, <<"B", "-", "2", "-", "K", "7">> }

LibroIds(cods) ==
    Libro(0, <<Hoja("Lista", <<H4>> \o [j \in DOMAIN cods |->
        <<Str(cods[j]), Str(<<"M","a","y","o","r"," ","a"," ","5">>), Num(100), USD>>])>>)

InitIds ==
    /\ InitMain
    /\ arg \in {[k |-> "hojas", wb |-> LibroIds(cods), cods |-> cods] :
                   cods \in ListasHasta(CodigosIds, MaxIdFilas)}
    /\ res = None

SpecIds == InitIds /\ [][RunHojas]_vars

-----------------------------------------------------------------------------
(* detectar_columnas on its own: arg holds a sheet *)

MaxAncho == 3

CeldasCols ==
    { None,
      Str(<<"C","o","d">>),
      Str(<<" ","S","K","U"," ">>),
      Str(<<"S","t","o","c","k">>),
      Str(<<"P","r","e","c","i","o">>),
      Str(<<"L","i","s","t","a">>),
      Str(<<"M","o","n","e","d","a">>),
      Str(<<"X","9">>) }

\* a second header row, cut to the width of the sheet
FilaModelo ==
    <<Str(<<"M","o","d","e","l","o">>), Str(<<"E","s","t","a","d","o">>),
      Str(<<"V","a","l","o","r">>), Str(<<"D","i","v","i","s","a">>),
      None, None, None, None>>

\* sheets of MaxAncho columns: blank rows up to the end of the scan window or
\* just short of it, then any row over CeldasCols, then a header or a blank row
HojasCols ==
    {Hoja("Lista", Blancas(n, MaxAncho) \o <<f, g>>) :
        n \in {0, MAX_SCAN_ROWS - 2, MAX_SCAN_ROWS - 1, MAX_SCAN_ROWS},
        f \in [1..MaxAncho -> CeldasCols],
        g \in {SubSeq(FilaModelo, 1, MaxAncho), Blanca(MaxAncho)}}

InitCols ==
    /\ InitMain
    /\ arg \in {[k |-> "hoja", ws |-> ws] : ws \in HojasCols}
    /\ res = None

RunCols ==
    /\ arg.k = "hoja"
    /\ res.k = "none"
    /\ res' = [k |-> "cols", v |-> detectar_columnas(arg.ws)]
    /\ UNCHANGED <<hashdb, basedb, snapdb, hoja1, cyc, prevgate, arg>>

SpecCols == InitCols /\ [][RunCols]_vars

-----------------------------------------------------------------------------
(* Properties of the hash gate and of run_fuente *)

\* decide_should_process has returned in the call in progress
PasoGate == cyc.pc \in {"hoja1", "diff", "report", "snap", "refresco", "done"}

C2_HashAntesDeProcesar ==
    /\ (cyc.proc /\ PasoGate) => hashdb[cyc.src] = file_sha256(cyc.file)
    /\ (cyc.same /\ cyc.prevfail /\ PasoGate) =>
          /\ ~ cyc.proc
          /\ cyc.pc \in {"refresco", "done"}
          /\ ~ cyc.h1
          /\ cyc.regs.k = "none"
          /\ ~ cyc.diffed
          /\ ~ cyc.report
          /\ snapdb[cyc.src] = cyc.snap0

\* a readable file whose report could not be saved is delivered again and is
\* omitted, the snapshot still being the one from before the failed call
C2_Testigo ==
    /\ cyc.same
    /\ cyc.prevfail
    /\ Files[cyc.file].ok
    /\ cyc.pc = "done"
    /\ ~ cyc.proc
    /\ hashdb[cyc.src] = file_sha256(cyc.file)

\* C3: in a processed call that finds no snapshot file for the source, the
\* four lists of calcular_diffs are empty and no report is created.
C3_ArranqueEnFrio ==
    (cyc.diffed /\ IsNone(cyc.snap0)) =>
        /\ cyc.diffs = NoDiffs
        /\ ~ cyc.report
        /\ cyc.pc # "report"

\* a first call of a source has extracted records and compared them
C3_Testigo ==
    /\ cyc.diffed
    /\ IsNone(cyc.snap0)
    /\ cyc.regs.v # <<>>

\* some of the four lists has a row
AlgunaLista(d) ==
    Len(d.precios_up) + Len(d.precios_dn) + Len(d.nuevos) + Len(d.eliminados) > 0

\* the ids of a record list
IdsDe(regs) == {regs[i].ID : i \in DOMAIN regs}

\* C7: once step B has compared, a report is created iff some of the four
\* lists has a row; with four empty lists no report is created and the
\* snapshot file is rewritten from the records of this call.
C7_ReporteSiiCambios ==
    /\ (cyc.diffed /\ cyc.pc \in {"snap", "done"}) => (cyc.report <=> AlgunaLista(cyc.diffs))
    /\ (cyc.diffed /\ cyc.pc = "report") => AlgunaLista(cyc.diffs)
    /\ (cyc.diffed /\ cyc.pc = "done" /\ ~ AlgunaLista(cyc.diffs)) =>
          /\ ~ cyc.report
          /\ cyc.saved
          /\ DOMAIN cargar_snapshot(snapdb[cyc.src]) = IdsDe(cyc.regs.v)

\* a processed call on a file that differs from the last one in its bytes
\* only: no list has a row, no report, and the snapshot was written again
C7_Testigo ==
    /\ cyc.diffed
    /\ cyc.pc = "done"
    /\ ~ AlgunaLista(cyc.diffs)
    /\ ~ cyc.report
    /\ cyc.saved
    /\ ~ IsNone(cyc.snap0)
    /\ cyc.regs.v # <<>>

\* the snapshot file of the source holds exactly the records regs: their ids
\* as keys, each with the price and the currency of its (last) record
FotoDe(file, regs) ==
    /\ DOMAIN cargar_snapshot(file) = IdsDe(regs)
    /\ \A id \in IdsDe(regs) :
          /\ cargar_snapshot(file)[id].Precio = regs[last_of(regs, id)].Precio
          /\ cargar_snapshot(file)[id].Moneda = regs[last_of(regs, id)].Moneda

\* C8: after a call whose step B ends, the snapshot holds exactly the records
\* of the call (no key of the earlier snapshot survives unless the call
\* extracted it); and an id that the last finished step B of the source put in
\* the removed list is not put in the removed list again by this one.
C8_FotoReemplazada ==
    /\ (cyc.diffed /\ cyc.pc = "done") => FotoDe(snapdb[cyc.src], cyc.regs.v)
    /\ cyc.diffed => ids_de(cyc.diffs.eliminados) \cap cyc.elim0 = {}

\* the first half of C8 on its own: the snapshot is rewritten whole
C8_SoloReemplazo ==
    (cyc.diffed /\ cyc.pc = "done") => FotoDe(snapdb[cyc.src], cyc.regs.v)

\* a call has reported removed ids after an earlier call of the source did
C8_Testigo ==
    /\ cyc.diffed
    /\ cyc.pc = "done"
    /\ cyc.diffs.eliminados # <<>>
    /\ cyc.elim0 # {}

-----------------------------------------------------------------------------
(* Properties of calcular_diffs (SpecDiff) *)

\* the ids of the current records that are also keys of the snapshot
Comunes == {id \in IdsDe(arg.curr) \cap DOMAIN arg.prev : id # <<>>}

\* the current record of an id: the last one of the list
Actual(id) == arg.curr[last_of(arg.curr, id)]

\* C4: the ids of the new list are the ids of the current records that are no
\* snapshot keys, the ids of the removed list are the snapshot keys that are
\* no ids of current records; a new row carries the currency and price of a
\* current record of the id, a removed row those of the snapshot.
C4_Reconciliacion ==
    res.k = "diffs" =>
        /\ ids_de(res.v.nuevos) = IdsDe(arg.curr) \ DOMAIN arg.prev
        /\ ids_de(res.v.eliminados) = DOMAIN arg.prev \ IdsDe(arg.curr)
        /\ \A i \in DOMAIN res.v.nuevos :
              res.v.nuevos[i] = <<res.v.nuevos[i][1], Actual(res.v.nuevos[i][1]).Moneda,
                                  Actual(res.v.nuevos[i][1]).Precio>>
        /\ \A i \in DOMAIN res.v.eliminados :
              res.v.eliminados[i] = <<res.v.eliminados[i][1],
                                      arg.prev[res.v.eliminados[i][1]].Moneda,
                                      arg.prev[res.v.eliminados[i][1]].Precio>>

\* C4 for the records that have an id: the same reconciliation, the current
\* ids being the non-empty ids of the current records
C4_ConId ==
    res.k = "diffs" =>
        /\ ids_de(res.v.nuevos) = (IdsDe(arg.curr) \ {<<>>}) \ DOMAIN arg.prev
        /\ ids_de(res.v.eliminados) = DOMAIN arg.prev \ (IdsDe(arg.curr) \ {<<>>})
        /\ \A i \in DOMAIN res.v.nuevos :
              res.v.nuevos[i] = <<res.v.nuevos[i][1], Actual(res.v.nuevos[i][1]).Moneda,
                                  Actual(res.v.nuevos[i][1]).Precio>>
        /\ \A i \in DOMAIN res.v.eliminados :
              res.v.eliminados[i] = <<res.v.eliminados[i][1],
                                      arg.prev[res.v.eliminados[i][1]].Moneda,
                                      arg.prev[res.v.eliminados[i][1]].Precio>>

\* a snapshot with the key "" (saved from a record whose id is empty) has
\* been compared with a list that holds a record with the empty id again
C4_Testigo ==
    /\ res.k = "diffs"
    /\ <<>> \in DOMAIN arg.prev
    /\ <<>> \in IdsDe(arg.curr)
    /\ <<>> \in ids_de(res.v.eliminados)

\* the example of C4: snapshot {A1: (100, USD)}, current A1 at 120 and B2 at
\* 50 give one new row for B2, no removed row and no price down
C4_Ejemplo ==
    (/\ res.k = "diffs"
     /\ arg.prev = cargar_snapshot(guardar_snapshot(<<Reg(A1, Float(100), USD)>>))
     /\ arg.curr = <<Reg(A1, Float(120), USD), Reg(B2, Float(50), USD)>>) =>
        /\ res.v.nuevos = <<<<B2, USD, Float(50)>>>>
        /\ res.v.eliminados = <<>>
        /\ res.v.precios_dn = <<>>
        /\ ids_de(res.v.precios_up) = {A1}

\* C5: an id of the snapshot and of the current records is in neither price
\* list when one of its two prices is None; otherwise it is in the price-up
\* list iff new - old > 0, in the price-down list iff new - old < 0, and in
\* neither iff new - old = 0.
C5_Clasificacion ==
    res.k = "diffs" =>
        \A id \in Comunes :
            IF IsNone(arg.prev[id].Precio) \/ IsNone(Actual(id).Precio)
            THEN id \notin ids_de(res.v.precios_up) \cup ids_de(res.v.precios_dn)
            ELSE /\ id \in ids_de(res.v.precios_up)
                       <=> FGt0(FSub(Actual(id).Precio, arg.prev[id].Precio))
                 /\ id \in ids_de(res.v.precios_dn)
                       <=> FLt0(FSub(Actual(id).Precio, arg.prev[id].Precio))
                 /\ id \notin ids_de(res.v.precios_up) \cup ids_de(res.v.precios_dn)
                       <=> FEq0(FSub(Actual(id).Precio, arg.prev[id].Precio))

\* a common id whose new price is nan has been classified
C5_Testigo ==
    /\ res.k = "diffs"
    /\ \E id \in Comunes : arg.prev[id].Precio = Float(100) /\ Actual(id).Precio = NaN

\* the number of rows of a list with this id
Veces(rows, id) == Cardinality({i \in DOMAIN rows : rows[i][1] = id})

\* C6: every id of the current records or of the snapshot is in at most one
\* of the four lists, and at most once in it.
C6_UnaSolaLista ==
    res.k = "diffs" =>
        \A id \in IdsDe(arg.curr) \cup DOMAIN arg.prev :
            Veces(res.v.precios_up, id) + Veces(res.v.precios_dn, id)
                + Veces(res.v.nuevos, id) + Veces(res.v.eliminados, id) <= 1

\* a list with a repeated id whose price went up has been compared
C6_Testigo ==
    /\ res.k = "diffs"
    /\ Len(arg.curr) = 2
    /\ arg.curr[1].ID = arg.curr[2].ID
    /\ res.v.precios_up # <<>>

-----------------------------------------------------------------------------
(* Properties of the mirroring extractors (SpecEspejo) *)

\* every record of out whose id is a followed by at least n characters has a
\* record with b in place of a and the same price and stock
Espejados(out, a, b, n) ==
    \A i \in DOMAIN out :
        (out[i].ID # <<>> /\ Head(out[i].ID) = a /\ Len(out[i].ID) >= n + 1) =>
            \E j \in DOMAIN out :
                /\ out[j].ID = <<b>> \o Tail(out[i].ID)
                /\ out[j].Precio = out[i].Precio
                /\ out[j].Stock = out[i].Stock

-----------------------------------------------------------------------------
(* Properties of the IMSA extractors (SpecImsa) *)

Guiones(s) == {i \in DOMAIN s : s[i] = "-"}

\* the text of s after its n-th "-"
TrasGuion(s, n) ==
    SubSeq(s, (CHOOSE i \in Guiones(s) : Cardinality({j \in Guiones(s) : j <= i}) = n) + 1,
           Len(s))

\* the id C10 gives a code: the text after its last "-" when it has two or more
IdUltimoGuion(s) ==
    IF Cardinality(Guiones(s)) >= 2 THEN TrasGuion(s, Cardinality(Guiones(s))) ELSE s

\* the id the code gives it: the text after its second "-" when it has two or more
IdSegundoGuion(s) == IF Cardinality(Guiones(s)) >= 2 THEN TrasGuion(s, 2) ELSE s

\* every record of out has this id
TodosCon(out, id) == \A i \in DOMAIN out : out[i].ID = id

\* C10: every record of extraer_imsa and extraer_imsa_hoja1 has as id the
\* text after the last "-" of its code when the code has two or more "-",
\* and the code itself when it has fewer.
C10_Truncado ==
    res.k = "imsa" =>
        /\ TodosCon(res.difs, IdUltimoGuion(arg.cod))
        /\ TodosCon(res.hoja1, IdUltimoGuion(arg.cod))

\* C10 as the code has it: the id is the text after the second "-" of the
\* code when the code has two or more "-" and the code itself when it has
\* fewer; except that extraer_imsa, on a workbook in which no sheet has a
\* header, keeps the whole code.
C10_TruncadoSegundo ==
    res.k = "imsa" =>
        /\ res.difs # <<>>
        /\ res.hoja1 # <<>>
        /\ TodosCon(res.hoja1, IdSegundoGuion(arg.cod))
        /\ arg.forma = "encabezado" => TodosCon(res.difs, IdSegundoGuion(arg.cod))
        /\ arg.forma = "plano" => TodosCon(res.difs, arg.cod)

\* a code with three "-" under a header has been extracted
C10_Testigo ==
    /\ res.k = "imsa"
    /\ arg.forma = "encabezado"
    /\ arg.cod = <<"K", "-", "K", "-", "K", "-", "K">>
    /\ res.difs # <<>>
    /\ res.difs[1].ID = <<"K", "-", "K">>
    /\ res.hoja1[1].ID = <<"K", "-", "K">>

-----------------------------------------------------------------------------
(* Properties of the availability table (Hoja 1) *)

\* the records of the table of source s, <<>> when none was written
Tabla(s) == IF hoja1[s].k = "list" THEN hoja1[s].v ELSE <<>>

\* C11: no availability table holds a record whose stock is a no-stock phrase
\* or the number 0 (Stock 0, excluded by every inclusion policy), while the
\* record whose stock text is "Mayor a 5" is in the table of the file.
C11_PoliticaStock ==
    \A s \in Sources :
        /\ \A i \in DOMAIN Tabla(s) : Tabla(s)[i].Stock # Num(0)
        /\ (cyc.src = s /\ cyc.h1 /\ cyc.file \in {1, 2, 3}) =>
               \E i \in DOMAIN Tabla(s) : Tabla(s)[i].Stock = Num(6)

\* the table of Tevelam has been written from a file that lists X9 with the
\* stock text "Sin stock"
C11_Testigo ==
    /\ cyc.src = "Tevelam"
    /\ cyc.h1
    /\ cyc.file = 1
    /\ \E i \in DOMAIN Tabla("Tevelam") :
          Tabla("Tevelam")[i].ID = <<"X", "9">> /\ Tabla("Tevelam")[i].Stock = Num(0)

-----------------------------------------------------------------------------
(* Properties of a cycle whose extraction fails *)

\* load_workbook raises on the file of the call
NoSeLee(c) == ~ Files[c.file].ok

\* the file of the call is read, no sheet of it has a header and the fallback
\* of the diff extractor finds no code
SinTabla(c) ==
    /\ Files[c.file].ok
    /\ \A i \in DOMAIN Files[c.file].sheets :
          detectar_columnas(Files[c.file].sheets[i]).header_row = 0
    /\ c.regs = List(<<>>)

\* C12: after a processed call whose file cannot be read, or has no header and
\* no fallback data, the stored hash and the snapshot file of the source are
\* what they were when run_fuente was called.
C12_FalloSinCambios ==
    (cyc.pc = "done" /\ cyc.proc /\ (NoSeLee(cyc) \/ SinTabla(cyc))) =>
        /\ hashdb[cyc.src] = cyc.hash0
        /\ snapdb[cyc.src] = cyc.snap0

\* C12 as the code has it: after a processed call whose file cannot be read,
\* the snapshot file is what it was and the stored hash is the hash of that
\* file; after one whose file has no header and no fallback data, the stored
\* hash is the hash of that file and the snapshot file holds no record.
C12_FalloConHashNuevo ==
    /\ (cyc.pc = "done" /\ cyc.proc /\ NoSeLee(cyc)) =>
          /\ snapdb[cyc.src] = cyc.snap0
          /\ ~ cyc.diffed
          /\ hashdb[cyc.src] = file_sha256(cyc.file)
          /\ hashdb[cyc.src] # cyc.hash0
    /\ (cyc.pc = "done" /\ cyc.proc /\ SinTabla(cyc)) =>
          /\ hashdb[cyc.src] = file_sha256(cyc.file)
          /\ hashdb[cyc.src] # cyc.hash0
          /\ cyc.saved
          /\ snapdb[cyc.src] = guardar_snapshot(<<>>)

\* a source with a snapshot of two records has been delivered a file that
\* cannot be read, and the call has ended
C12_Testigo ==
    /\ cyc.pc = "done"
    /\ cyc.proc
    /\ NoSeLee(cyc)
    /\ cyc.snap0.k = "csv"
    /\ Len(cyc.snap0.rows) = 2
    /\ snapdb[cyc.src] = cyc.snap0

-----------------------------------------------------------------------------
(* Properties of a cycle in which a write of the hash or snapshot raises *)

\* C13: a call in which write_hash raised goes on to no extraction and no
\* diff, and a call in which write_hash or guardar_snapshot raised does not
\* end with the source added to procesados.
C13_FalloPersistencia ==
    /\ cyc.falla = "hash" => (~ cyc.h1 /\ cyc.regs.k = "none" /\ ~ cyc.diffed)
    /\ (cyc.falla # "" /\ cyc.pc = "done") => cyc.fin # "procesado"

\* a call in which no write of the hash succeeded has extracted, compared and
\* saved the snapshot, and has ended with the source in procesados
C13_Testigo ==
    /\ cyc.falla = "hash"
    /\ hashdb[cyc.src] # file_sha256(cyc.file)
    /\ cyc.pc = "done"
    /\ cyc.diffed
    /\ cyc.saved
    /\ cyc.fin = "procesado"

-----------------------------------------------------------------------------
(* Properties of the isolation of the sources *)

\* a step of run_fuente (or the refresh that follows an omitted call) is pending
EnCurso == cyc.pc \in {"gate", "hoja1", "diff", "report", "snap", "refresco"}

\* nothing raised in the call: no write of the hash, no extractor, no report,
\* no write of the snapshot
SinFallos(c) ==
    c.fin # "salteado" /\ c.falla = "" /\ Files[c.file].ok /\ ~ prevgate[c.src].fallo

\* C14: whatever raised in a call (the write of the hash, an extractor, the
\* report, the write of the snapshot), the call returns to main, which can go
\* on to a source (download and run_fuente, or the skip of the daily gate);
\* the stored hash and the snapshot file
\* of every other source are what they were when the call began; and a call
\* on a new readable file in which nothing raises is gated and processed to
\* the end whatever the calls of the other sources did.
C14_Aislamiento ==
    /\ ~ EnCurso =>
          ENABLED (Call({"Disco_Pro", "ARS_Tech"}) \/ Salto({"Disco_Pro", "ARS_Tech"}))
    /\ cyc.pc # "idle" =>
          \A s \in Sources \ {cyc.src} :
              hashdb[s] = cyc.hashes0[s] /\ snapdb[s] = cyc.snaps0[s]
    /\ (cyc.pc = "done" /\ SinFallos(cyc) /\ cyc.hash0 # file_sha256(cyc.file)) =>
          /\ cyc.proc
          /\ cyc.h1
          /\ cyc.diffed
          /\ cyc.saved
          /\ hashdb[cyc.src] = file_sha256(cyc.file)

\* after a call of Disco_Pro in which the report or the snapshot raised, a
\* call of ARS_Tech on a readable file has been processed and its snapshot
\* saved, the hash of Disco_Pro being still the one its call stored
C14_Testigo ==
    /\ cyc.src = "ARS_Tech"
    /\ cyc.pc = "done"
    /\ prevgate["Disco_Pro"].fallo
    /\ SinFallos(cyc)
    /\ cyc.saved
    /\ hashdb["Disco_Pro"] = file_sha256(prevgate["Disco_Pro"].file)
    /\ hashdb["Disco_Pro"] = cyc.hashes0["Disco_Pro"]

-----------------------------------------------------------------------------
(* Properties of the choice of the sheet (SpecHojas) *)

\* the rows of ws that hold a code under the schema d, or from row fila on in
\* column 1 when ws has no header
FilasCon(ws, d, fila) ==
    IF d.header_row # 0 THEN code_rows(ws, d.header_row + 1, d.cols.codigo)
    ELSE code_rows(ws, fila, 1)

\* the number of codes of ws under its header or under the fallback
Cuenta(ws, fila) == Len(FilasCon(ws, detectar_columnas(ws), fila))

\* the codes of the rows rs of ws, in the code column of d or in column 1
CodigosCon(ws, d, rs) ==
    {norm_text(cell(ws, rs[i], IF d.header_row # 0 THEN d.cols.codigo ELSE 1)) : i \in DOMAIN rs}

\* the codes of ws under its header or under the fallback
CodigosDe(ws, fila) ==
    CodigosCon(ws, detectar_columnas(ws), FilasCon(ws, detectar_columnas(ws), fila))

\* out holds the codes of a sheet of wb with the highest number of codes
LeeMejor(out, wb, fila) ==
    \E i \in DOMAIN wb.sheets :
        /\ \A j \in DOMAIN wb.sheets : Cuenta(wb.sheets[j], fila) <= Cuenta(wb.sheets[i], fila)
        /\ IdsDe(out) = CodigosDe(wb.sheets[i], fila)
        /\ Len(out) = Cuenta(wb.sheets[i], fila)

\* C15: each of the eight extractors returns the records of a sheet with the
\* highest number of non-empty codes under its header, or under the fallback
\* of the source (first row 11, 9, 2 or 8) when it has no header.
C15_MejorHoja ==
    res.k = "hojas" =>
        /\ LeeMejor(res.tevelam_h1, arg.wb, 11)
        /\ LeeMejor(res.disco_h1, arg.wb, 9)
        /\ LeeMejor(res.extra_h1, arg.wb, 2)
        /\ LeeMejor(res.imsa_h1, arg.wb, 8)
        /\ LeeMejor(res.tevelam, arg.wb, 11)
        /\ LeeMejor(res.disco, arg.wb, 9)
        /\ LeeMejor(res.extra, arg.wb, 2)
        /\ LeeMejor(res.imsa, arg.wb, 8)

\* the part of C15 that elegir_hoja_stock gives: the Hoja 1 extractors of
\* Tevelam and Disco_Pro read a sheet with the highest number of codes
C15_HojaStock ==
    res.k = "hojas" =>
        /\ LeeMejor(res.tevelam_h1, arg.wb, 11)
        /\ LeeMejor(res.disco_h1, arg.wb, 9)

\* a workbook whose first sheet has a header and one code and whose second
\* sheet has a header and two codes: extraer_tevelam_hoja1 has read the
\* second sheet and extraer_imsa_hoja1 the first
C15_Testigo ==
    /\ res.k = "hojas"
    /\ arg.wb.sheets[1] = HojaConEncabezado("Lista", 1, 1)
    /\ arg.wb.sheets[2] = HojaConEncabezado("Lista", 2, 2)
    /\ IdsDe(res.tevelam_h1) = {CodigoDe(2, 1), CodigoDe(2, 2)}
    /\ IdsDe(res.imsa_h1) = {CodigoDe(1, 1)}

-----------------------------------------------------------------------------
(* Properties of detectar_columnas (SpecCols) *)

\* the columns of row r of ws whose normalised text is in the keyword set S
ColsEn(ws, r, S) == {c \in DOMAIN ws.rows[r] : norm_text_lc(ws.rows[r][c]) \in S}

\* the rows of the scan window of ws with a code keyword
FilasCodigo(ws) ==
    {r \in DOMAIN ws.rows : r <= MAX_SCAN_ROWS /\ ColsEn(ws, r, CAND_COD) # {}}

\* the leftmost column of S, 0 when S is empty
Primera(S) == IF S = {} THEN 0 ELSE MinOf(S)

\* C16: the header row detectar_columnas returns is the topmost row of the
\* first MAX_SCAN_ROWS rows with a cell whose normalised text is a code
\* keyword; in that row each of codigo, stock, precio and moneda is the
\* leftmost cell with a keyword of the field, and unassigned when there is
\* none; the header row is None iff no row of the window has a code keyword.
C16_Encabezado ==
    res.k = "cols" =>
        /\ res.v.header_row = 0 <=> FilasCodigo(arg.ws) = {}
        /\ res.v.header_row = 0 => res.v.cols = NoCols
        /\ res.v.header_row # 0 =>
              /\ res.v.header_row = MinOf(FilasCodigo(arg.ws))
              /\ res.v.cols.codigo = Primera(ColsEn(arg.ws, res.v.header_row, CAND_COD))
              /\ res.v.cols.stock = Primera(ColsEn(arg.ws, res.v.header_row, CAND_STOCK))
              /\ res.v.cols.precio = Primera(ColsEn(arg.ws, res.v.header_row, CAND_PREC))
              /\ res.v.cols.moneda = Primera(ColsEn(arg.ws, res.v.header_row, CAND_MON))

\* the last row of the window holds " SKU " and "Cod" and the row after it
\* another header: row 60 is returned, with the code in column 1 and no stock
\* column
C16_Testigo ==
    /\ res.k = "cols"
    /\ Len(arg.ws.rows) = MAX_SCAN_ROWS + 1
    /\ arg.ws.rows[MAX_SCAN_ROWS][1] = Str(<<" ","S","K","U"," ">>)
    /\ arg.ws.rows[MAX_SCAN_ROWS][2] = Str(<<"C","o","d">>)
    /\ arg.ws.rows[MAX_SCAN_ROWS + 1][1] = Str(<<"M","o","d","e","l","o">>)
    /\ res.v.header_row = MAX_SCAN_ROWS
    /\ res.v.cols.codigo = 1
    /\ res.v.cols.stock = 0

-----------------------------------------------------------------------------
(* Properties of the ids of one extraction (SpecIds) *)

\* the number of records of out with this id
VecesId(out, id) == Cardinality({i \in DOMAIN out : out[i].ID = id})

\* no two records of out have the same id
SinRepetidos(out) == \A i, j \in DOMAIN out : out[i].ID = out[j].ID => i = j

\* the id with F and T swapped, the id itself when it has no such prefix
Gemelo(id) ==
    IF Len(id) >= 2 /\ Head(id) = "F" THEN <<"T">> \o Tail(id)
    ELSE IF Len(id) >= 2 /\ Head(id) = "T" THEN <<"F">> \o Tail(id)
    ELSE id

\* 1 when id is a code of the rows cods, else 0
Esta(id, cods) == IF \E j \in DOMAIN cods : cods[j] = id THEN 1 ELSE 0

\* an id is in out at most once as the record of a row and, when it has a
\* twin among the codes, at most once more as the mirror of that row
SinRepetidosSalvoEspejo(out, cods) ==
    \A i \in DOMAIN out :
        VecesId(out, out[i].ID) <=
            Esta(out[i].ID, cods) +
            (IF Gemelo(out[i].ID) # out[i].ID THEN Esta(Gemelo(out[i].ID), cods) ELSE 0)

\* C17: no extractor returns two records with the same id, except that in the
\* Hoja 1 lists of Tevelam and Disco_Pro an id may be once the record of a row
\* and once the F/T mirror of another row.
C17_IdsUnicos ==
    res.k = "hojas" =>
        /\ SinRepetidos(res.tevelam)
        /\ SinRepetidos(res.disco)
        /\ SinRepetidos(res.extra)
        /\ SinRepetidos(res.imsa)
        /\ SinRepetidos(res.extra_h1)
        /\ SinRepetidos(res.imsa_h1)
        /\ SinRepetidosSalvoEspejo(res.tevelam_h1, arg.cods)
        /\ SinRepetidosSalvoEspejo(res.disco_h1, arg.cods)

\* a sheet with the two distinct codes A-1-K7 and B-2-K7 has given two IMSA
\* records with the id K7, and two Tevelam records with distinct ids
C17_Testigo ==
    /\ res.k = "hojas"
    /\ arg.cods = <<<<"A", "-", "1", "-", "K", "7">>, <<"B", "-", "2", "-", "K", "7">>>>
    /\ Len(res.imsa) = 2
    /\ res.imsa[1].ID = <<"K", "7">>
    /\ res.imsa[2].ID = <<"K", "7">>
    /\ SinRepetidos(res.tevelam)

-----------------------------------------------------------------------------
(* Properties of the order of the snapshot write *)

\* C18: guardar_snapshot has written only in a call whose diff was computed
\* and, when a list has a row, whose report was created; in a call in which
\* the diff extractor, the reading of the snapshot or the report raised, the
\* snapshot file is what it was when run_fuente was called.
C18_FotoAlFinal ==
    cyc.pc # "idle" =>
        /\ cyc.saved =>
              (cyc.diffed /\ cyc.pc = "done" /\ (AlgunaLista(cyc.diffs) => cyc.report))
        /\ ~ cyc.saved => snapdb[cyc.src] = cyc.snap0
        /\ (cyc.pc = "done" /\ cyc.proc /\
              (~ cyc.diffed \/ (AlgunaLista(cyc.diffs) /\ ~ cyc.report))) =>
              /\ ~ cyc.saved
              /\ snapdb[cyc.src] = cyc.snap0

\* a call whose report raised has ended, the snapshot file of the source being
\* the one an earlier call saved
C18_Testigo ==
    /\ cyc.pc = "done"
    /\ cyc.diffed
    /\ AlgunaLista(cyc.diffs)
    /\ ~ cyc.report
    /\ cyc.snap0.k = "csv"
    /\ snapdb[cyc.src] = cyc.snap0
    /\ cyc.regs.v # <<>>
    /\ guardar_snapshot(cyc.regs.v) # cyc.snap0

-----------------------------------------------------------------------------
(* Properties of the daily gate *)

\* C19: a call of run_fuente that processes adopts the file as the base of
\* today; while the base of a source is of today main does not download for it
\* and does not call run_fuente on it, so every call was made with a base that
\* was not of that day; in a run that skips the source its stored hash, base
\* and snapshot stay what they were, no gate, diff, report or snapshot write
\* takes place, and Hoja 1 of the source is the one extracted from the base.
C19_GateDiario ==
    /\ \A s \in Sources :
          (cyc.pc \in {"idle", "done"} /\ base_es_de_hoy(basedb[s])) =>
              /\ ~ ENABLED Call({s})
              /\ ENABLED Salto({s})
    /\ (cyc.pc # "idle" /\ cyc.fin # "salteado") =>
          /\ ~ base_es_de_hoy(cyc.base0)
          /\ (cyc.proc /\ cyc.pc # "gate") => base_es_de_hoy(basedb[cyc.src])
    /\ cyc.fin = "salteado" =>
          /\ base_es_de_hoy(cyc.base0)
          /\ hashdb[cyc.src] = cyc.hash0
          /\ basedb[cyc.src] = cyc.base0
          /\ snapdb[cyc.src] = cyc.snap0
          /\ ~ cyc.proc /\ ~ cyc.h1 /\ ~ cyc.diffed /\ ~ cyc.report /\ ~ cyc.saved
          /\ cyc.pc = "done" => hoja1 = hoja1_desde_base(hoja1, cyc.src, cyc.base0)

\* a run has skipped Tevelam, whose base was adopted the same day and whose
\* snapshot was saved, and has refreshed its Hoja 1 from the base
C19_Testigo ==
    /\ cyc.pc = "done"
    /\ cyc.fin = "salteado"
    /\ cyc.src = "Tevelam"
    /\ base_es_de_hoy(basedb["Tevelam"])
    /\ ~ IsNone(snapdb["Tevelam"])
    /\ hoja1["Tevelam"].k = "list"
    /\ hoja1["Tevelam"].v # <<>>

=============================================================================
